---- MODULE Spec2Model ----
(***************************************************************************)
(* ADMET-AI microservice: the serving layer of endpoint.py (the worker     *)
(* pool held in an asyncio.Queue, the /smi and /upload_smi handlers) and   *)
(* the property table, alias map and worker class of admet.py.             *)
(*                                                                         *)
(* Python strings are modelled as sequences of one-character strings, so   *)
(* that str.lower, str.replace, str.strip and str.splitlines are computed  *)
(* and not assumed.  An Optional value is None (the empty tuple) or        *)
(* Some(x) (the one-element tuple holding x).                              *)
(***************************************************************************)
EXTENDS Integers, Sequences, FiniteSets, TLC

None == << >>
Some(x) == << x >>

(***************************************************************************)
(* str methods                                                             *)
(***************************************************************************)
UpperLetters ==
  <<"A","B","C","D","E","F","G","H","I","J","K","L","M",
    "N","O","P","Q","R","S","T","U","V","W","X","Y","Z">>

LowerLetters ==
  <<"a","b","c","d","e","f","g","h","i","j","k","l","m",
    "n","o","p","q","r","s","t","u","v","w","x","y","z">>

\* str.lower on one character
LowerChar(c) ==
  IF \E i \in 1..Len(UpperLetters) : UpperLetters[i] = c
    THEN LowerLetters[CHOOSE i \in 1..Len(UpperLetters) : UpperLetters[i] = c]
    ELSE c

\* s.lower()
StrLower(s) == [i \in 1..Len(s) |-> LowerChar(s[i])]

\* s.replace(old, new) for one-character old and new
StrReplace(s, old, new) == [i \in 1..Len(s) |-> IF s[i] = old THEN new ELSE s[i]]

\* s.startswith(p)
StartsWith(s, p) == Len(s) >= Len(p) /\ SubSeq(s, 1, Len(p)) = p

\* the characters str.strip removes and the line boundary of str.splitlines
\* (the uploads of the model hold no other white space or line boundary)
IsSpace(c) == c \in {" ", "\n"}
IsLineBreak(c) == c = "\n"

\* s.strip()
StrStrip(s) ==
  LET kept == {i \in 1..Len(s) : ~IsSpace(s[i])}
  IN  IF kept = {} THEN << >>
      ELSE LET first == CHOOSE i \in kept : \A j \in kept : i <= j
               last == CHOOSE i \in kept : \A j \in kept : j <= i
           IN  SubSeq(s, first, last)

\* s.splitlines() from character i on: line is the line being read
RECURSIVE SplitLinesFrom(_, _, _, _)
SplitLinesFrom(s, i, line, lines) ==
  IF i > Len(s) THEN (IF line = << >> THEN lines ELSE Append(lines, line))
  ELSE IF IsLineBreak(s[i]) THEN SplitLinesFrom(s, i + 1, << >>, Append(lines, line))
  ELSE SplitLinesFrom(s, i + 1, Append(line, s[i]), lines)

StrSplitLines(s) == SplitLinesFrom(s, 1, << >>, << >>)

(***************************************************************************)
(* admet.py: the property table, (id, name, task_type)                     *)
(***************************************************************************)
ALL_PROPS ==
  <<
    << <<"m","o","l","e","c","u","l","a","r","_","w","e","i","g","h","t">>,
       <<"M","o","l","e","c","u","l","a","r"," ","W","e","i","g","h","t">>,
       "regression" >>,
    << <<"l","o","g","P">>,
       <<"L","o","g","P">>,
       "regression" >>,
    << <<"h","y","d","r","o","g","e","n","_","b","o","n","d","_","a","c","c","e","p","t","o","r","s">>,
       <<"H","y","d","r","o","g","e","n"," ","B","o","n","d"," ","A","c","c","e","p","t","o","r","s">>,
       "regression" >>,
    << <<"h","y","d","r","o","g","e","n","_","b","o","n","d","_","d","o","n","o","r","s">>,
       <<"H","y","d","r","o","g","e","n"," ","B","o","n","d"," ","D","o","n","o","r","s">>,
       "regression" >>,
    << <<"L","i","p","i","n","s","k","i">>,
       <<"L","i","p","i","n","s","k","i"," ","R","u","l","e"," ","o","f"," ","5">>,
       "regression" >>,
    << <<"Q","E","D">>,
       <<"Q","u","a","n","t","i","t","a","t","i","v","e"," ","E","s","t","i","m","a","t","e"," ","o","f"," ","D","r","u","g","l","i","k","e","n","e","s","s">>,
       "regression" >>,
    << <<"s","t","e","r","e","o","_","c","e","n","t","e","r","s">>,
       <<"S","t","e","r","e","o"," ","C","e","n","t","e","r","s">>,
       "regression" >>,
    << <<"t","p","s","a">>,
       <<"T","o","p","o","l","o","g","i","c","a","l"," ","P","o","l","a","r"," ","S","u","r","f","a","c","e"," ","A","r","e","a">>,
       "regression" >>,
    << <<"H","I","A","_","H","o","u">>,
       <<"H","u","m","a","n"," ","I","n","t","e","s","t","i","n","a","l"," ","A","b","s","o","r","p","t","i","o","n">>,
       "classification" >>,
    << <<"B","i","o","a","v","a","i","l","a","b","i","l","i","t","y","_","M","a">>,
       <<"O","r","a","l"," ","B","i","o","a","v","a","i","l","a","b","i","l","i","t","y">>,
       "classification" >>,
    << <<"S","o","l","u","b","i","l","i","t","y","_","A","q","S","o","l","D","B">>,
       <<"A","q","u","e","o","u","s"," ","S","o","l","u","b","i","l","i","t","y">>,
       "regression" >>,
    << <<"L","i","p","o","p","h","i","l","i","c","i","t","y","_","A","s","t","r","a","Z","e","n","e","c","a">>,
       <<"L","i","p","o","p","h","i","l","i","c","i","t","y">>,
       "regression" >>,
    << <<"H","y","d","r","a","t","i","o","n","F","r","e","e","E","n","e","r","g","y","_","F","r","e","e","S","o","l","v">>,
       <<"H","y","d","r","a","t","i","o","n"," ","F","r","e","e"," ","E","n","e","r","g","y">>,
       "regression" >>,
    << <<"C","a","c","o","2","_","W","a","n","g">>,
       <<"C","a","c","o","2"," ","P","e","r","m","e","a","b","i","l","i","t","y">>,
       "regression" >>,
    << <<"P","A","M","P","A","_","N","C","A","T","S">>,
       <<"P","A","M","P","A"," ","P","e","r","m","e","a","b","i","l","i","t","y">>,
       "classification" >>,
    << <<"P","g","p","_","B","r","o","c","c","a","t","e","l","l","i">>,
       <<"P","-","g","l","y","c","o","p","r","o","t","e","i","n"," ","I","n","h","i","b","i","t","i","o","n">>,
       "classification" >>,
    << <<"B","B","B","_","M","a","r","t","i","n","s">>,
       <<"B","l","o","o","d","-","B","r","a","i","n"," ","B","a","r","r","i","e","r"," ","P","e","n","e","t","r","a","t","i","o","n">>,
       "classification" >>,
    << <<"P","P","B","R","_","A","Z">>,
       <<"P","l","a","s","m","a"," ","P","r","o","t","e","i","n"," ","B","i","n","d","i","n","g"," ","R","a","t","e">>,
       "regression" >>,
    << <<"V","D","s","s","_","L","o","m","b","a","r","d","o">>,
       <<"V","o","l","u","m","e"," ","o","f"," ","D","i","s","t","r","i","b","u","t","i","o","n"," ","S","t","e","a","d","y"," ","S","t","a","t","e">>,
       "regression" >>,
    << <<"H","a","l","f","_","L","i","f","e","_","O","b","a","c","h">>,
       <<"H","a","l","f","-","L","i","f","e">>,
       "regression" >>,
    << <<"C","l","e","a","r","a","n","c","e","_","H","e","p","a","t","o","c","y","t","e","_","A","Z">>,
       <<"D","r","u","g"," ","C","l","e","a","r","a","n","c","e"," ","H","e","p","a","t","o","c","y","t","e">>,
       "regression" >>,
    << <<"C","l","e","a","r","a","n","c","e","_","M","i","c","r","o","s","o","m","e","_","A","Z">>,
       <<"D","r","u","g"," ","C","l","e","a","r","a","n","c","e"," ","M","i","c","r","o","s","o","m","e">>,
       "regression" >>,
    << <<"C","Y","P","1","A","2","_","V","e","i","t","h">>,
       <<"C","Y","P","1","A","2"," ","I","n","h","i","b","i","t","i","o","n">>,
       "classification" >>,
    << <<"C","Y","P","2","C","1","9","_","V","e","i","t","h">>,
       <<"C","Y","P","2","C","1","9"," ","I","n","h","i","b","i","t","i","o","n">>,
       "classification" >>,
    << <<"C","Y","P","2","C","9","_","V","e","i","t","h">>,
       <<"C","Y","P","2","C","9"," ","I","n","h","i","b","i","t","i","o","n">>,
       "classification" >>,
    << <<"C","Y","P","2","D","6","_","V","e","i","t","h">>,
       <<"C","Y","P","2","D","6"," ","I","n","h","i","b","i","t","i","o","n">>,
       "classification" >>,
    << <<"C","Y","P","3","A","4","_","V","e","i","t","h">>,
       <<"C","Y","P","3","A","4"," ","I","n","h","i","b","i","t","i","o","n">>,
       "classification" >>,
    << <<"C","Y","P","2","C","9","_","S","u","b","s","t","r","a","t","e","_","C","a","r","b","o","n","M","a","n","g","e","l","s">>,
       <<"C","Y","P","2","C","9"," ","S","u","b","s","t","r","a","t","e">>,
       "classification" >>,
    << <<"C","Y","P","2","D","6","_","S","u","b","s","t","r","a","t","e","_","C","a","r","b","o","n","M","a","n","g","e","l","s">>,
       <<"C","Y","P","2","D","6"," ","S","u","b","s","t","r","a","t","e">>,
       "classification" >>,
    << <<"C","Y","P","3","A","4","_","S","u","b","s","t","r","a","t","e","_","C","a","r","b","o","n","M","a","n","g","e","l","s">>,
       <<"C","Y","P","3","A","4"," ","S","u","b","s","t","r","a","t","e">>,
       "classification" >>,
    << <<"h","E","R","G">>,
       <<"h","E","R","G"," ","B","l","o","c","k","i","n","g">>,
       "classification" >>,
    << <<"C","l","i","n","T","o","x">>,
       <<"C","l","i","n","i","c","a","l"," ","T","o","x","i","c","i","t","y">>,
       "classification" >>,
    << <<"A","M","E","S">>,
       <<"A","M","E","S"," ","M","u","t","a","g","e","n","i","c","i","t","y">>,
       "classification" >>,
    << <<"D","I","L","I">>,
       <<"D","r","u","g"," ","I","n","d","u","c","e","d"," ","L","i","v","e","r"," ","I","n","j","u","r","y">>,
       "classification" >>,
    << <<"C","a","r","c","i","n","o","g","e","n","s","_","L","a","g","u","n","i","n">>,
       <<"C","a","r","c","i","n","o","g","e","n","i","c","i","t","y">>,
       "classification" >>,
    << <<"L","D","5","0","_","Z","h","u">>,
       <<"A","c","u","t","e"," ","T","o","x","i","c","i","t","y"," ","L","D","5","0">>,
       "regression" >>,
    << <<"S","k","i","n","_","R","e","a","c","t","i","o","n">>,
       <<"S","k","i","n"," ","R","e","a","c","t","i","o","n">>,
       "classification" >>,
    << <<"N","R","-","A","R">>,
       <<"A","n","d","r","o","g","e","n"," ","R","e","c","e","p","t","o","r">>,
       "classification" >>,
    << <<"N","R","-","A","R","-","L","B","D">>,
       <<"A","n","d","r","o","g","e","n"," ","R","e","c","e","p","t","o","r"," ","L","B","D">>,
       "classification" >>,
    << <<"N","R","-","A","h","R">>,
       <<"A","r","y","l"," ","H","y","d","r","o","c","a","r","b","o","n"," ","R","e","c","e","p","t","o","r">>,
       "classification" >>,
    << <<"N","R","-","A","r","o","m","a","t","a","s","e">>,
       <<"A","r","o","m","a","t","a","s","e">>,
       "classification" >>,
    << <<"N","R","-","E","R">>,
       <<"E","s","t","r","o","g","e","n"," ","R","e","c","e","p","t","o","r">>,
       "classification" >>,
    << <<"N","R","-","E","R","-","L","B","D">>,
       <<"E","s","t","r","o","g","e","n"," ","R","e","c","e","p","t","o","r"," ","L","B","D">>,
       "classification" >>,
    << <<"N","R","-","P","P","A","R","-","g","a","m","m","a">>,
       <<"P","P","A","R","-","g","a","m","m","a">>,
       "classification" >>,
    << <<"S","R","-","A","R","E">>,
       <<"A","R","E">>,
       "classification" >>,
    << <<"S","R","-","A","T","A","D","5">>,
       <<"A","T","A","D","5">>,
       "classification" >>,
    << <<"S","R","-","H","S","E">>,
       <<"H","S","E">>,
       "classification" >>,
    << <<"S","R","-","M","M","P">>,
       <<"M","i","t","o","c","h","o","n","d","r","i","a","l"," ","M","e","m","b","r","a","n","e"," ","P","o","t","e","n","t","i","a","l">>,
       "classification" >>,
    << <<"S","R","-","p","5","3">>,
       <<"p","5","3">>,
       "classification" >>
  >>

\* the ids of the table, in table order: [prop[0] for prop in ALL_PROPS]
CatalogIds == [i \in 1..Len(ALL_PROPS) |-> ALL_PROPS[i][1]]

(***************************************************************************)
(* A Python dict: its keys in insertion order, and the function from its   *)
(* keys to their values.                                                   *)
(***************************************************************************)
EmptyDict == [keys |-> << >>, map |-> << >>]

DictHas(d, k) == k \in DOMAIN d.map

\* d.get(k): Some(value) or None
DictGet(d, k) == IF DictHas(d, k) THEN Some(d.map[k]) ELSE None

\* d[k] = v: an existing key keeps its place and takes the new value
DictSet(d, k, v) ==
  [ keys |-> IF DictHas(d, k) THEN d.keys ELSE Append(d.keys, k),
    map |-> [x \in DOMAIN d.map \cup {k} |-> IF x = k THEN v ELSE d.map[x]] ]

\* list(d.keys())
DictKeys(d) == d.keys

(***************************************************************************)
(* admet.py: PROPERTY_NAME_MAP                                             *)
(***************************************************************************)
\* MapOneProp with the friendly name lowercased and its spaces kept
MapOnePropSpaces(d, row) ==
  LET pid == row[1]
      friendly_name == row[2]
      d1 == DictSet(d, pid, pid)
      d2 == DictSet(d1, StrLower(pid), pid)
  IN  DictSet(d2, StrLower(friendly_name), pid)

\* the three assignments of one iteration of the loop over ALL_PROPS
MapOneProp(d, row) ==
  LET pid == row[1]
      friendly_name == row[2]
      d1 == DictSet(d, pid, pid)
      d2 == DictSet(d1, StrLower(pid), pid)
  IN  DictSet(d2, StrReplace(StrLower(friendly_name), " ", "_"), pid)

\* the loop of lines 89-95 from row i on (the test on Len only makes TLC
\* evaluate the dict of one iteration before it starts the next)
RECURSIVE BuildNameMap(_, _)
BuildNameMap(d, i) ==
  IF i > Len(ALL_PROPS) THEN d
  ELSE LET next == MapOneProp(d, ALL_PROPS[i])
       IN  IF Len(next.keys) > 0 THEN BuildNameMap(next, i + 1) ELSE next

PROPERTY_NAME_MAP == BuildNameMap(EmptyDict, 1)

(***************************************************************************)
(* endpoint.py: get_valid_properties                                       *)
(***************************************************************************)
\* Python truth value of an Optional[str]: None and "" are falsy
Truthy(opt) == opt # None /\ opt[1] # << >>

\* the f-string of line 58, kept as its two interpolated parts
InvalidPropertyError(prop) ==
  [invalid |-> prop, available |-> DictKeys(PROPERTY_NAME_MAP)]

\* the loop of lines 53-62 from index i on, valid_props collected so far
RECURSIVE ValidateFrom(_, _, _)
ValidateFrom(requested, i, valid_props) ==
  IF i > Len(requested) THEN <<valid_props, None>>
  ELSE LET full_prop_id == DictGet(PROPERTY_NAME_MAP, requested[i])
       IN  IF ~Truthy(full_prop_id)
             THEN << << >>, Some(InvalidPropertyError(requested[i])) >>
             ELSE ValidateFrom(requested, i + 1, Append(valid_props, full_prop_id[1]))

\* get_valid_properties with the test "not requested_properties" in place
\* of "is None": an empty list is treated as an absent one
get_valid_properties_falsy(requested_properties) ==
  IF requested_properties = None \/ requested_properties[1] = << >>
    THEN <<CatalogIds, None>>
    ELSE ValidateFrom(requested_properties[1], 1, << >>)

\* get_valid_properties with the loop going on past an alias that is not
\* in the table: the first error is kept with the properties that resolve
RECURSIVE ValidateSkipping(_, _, _, _)
ValidateSkipping(requested, i, valid_props, error) ==
  IF i > Len(requested) THEN <<valid_props, error>>
  ELSE LET full_prop_id == DictGet(PROPERTY_NAME_MAP, requested[i])
       IN  IF ~Truthy(full_prop_id)
             THEN ValidateSkipping(requested, i + 1, valid_props,
                    IF error = None THEN Some(InvalidPropertyError(requested[i]))
                                    ELSE error)
             ELSE ValidateSkipping(requested, i + 1,
                                   Append(valid_props, full_prop_id[1]), error)

get_valid_properties_partial(requested_properties) ==
  IF requested_properties = None
    THEN <<CatalogIds, None>>
    ELSE ValidateSkipping(requested_properties[1], 1, << >>, None)

\* requested_properties is None or Some(list of strings);
\* the result is <<properties_list, error_message>>
get_valid_properties(requested_properties) ==
  IF requested_properties = None
    THEN <<CatalogIds, None>>
    ELSE ValidateFrom(requested_properties[1], 1, << >>)

(***************************************************************************)
(* Bounds of the model                                                     *)
(***************************************************************************)
\* requests in flight at once
MaxRequests == 2
\* largest value the QUEUE_COUNT setting takes
MaxQueueCount == 2

Requests == 1..MaxRequests
Workers == 1..MaxQueueCount
\* values of the QUEUE_COUNT environment setting: int() accepts any integer
QueueCountValues == {-1} \cup (0..MaxQueueCount)

(***************************************************************************)
(* Inputs of the model                                                     *)
(***************************************************************************)
CCO == <<"C","C","O">>
CCN == <<"C","C","N">>
SmilesInputs == {CCO, CCN}

\* uploaded files: two inputs around a blank line, one input, no input
UploadInputs ==
  { <<"C","C","O","\n","\n"," ","C","C","N"," ","\n">>,
    <<"C","C","N">>,
    <<" ","\n">> }

s_logP == <<"l","o","g","P">>
s_QED == <<"Q","E","D">>
s_hERG == <<"h","E","R","G">>
s_herg_blocking == <<"h","e","r","g","_","b","l","o","c","k","i","n","g">>
s_bogus == <<"b","o","g","u","s">>
s_LOGP == <<"L","O","G","P">>

\* the property field of a request: absent, empty, a friendly-name alias
\* and a canonical id, an unknown alias after a known one, an unknown alias
\* before a known one, an id in upper case
PropertyInputs ==
  { None,
    Some(<< >>),
    Some(<<s_herg_blocking, s_QED>>),
    Some(<<s_QED, s_bogus>>),
    Some(<<s_bogus, s_logP>>),
    Some(<<s_LOGP>>) }

(***************************************************************************)
(* The inference engine (admet_ai.ADMETModel), outside the repository:     *)
(* predict(smi) raises or returns a dict keyed by property ids, all of     *)
(* them or a subset.  A value identifies the input and the property.       *)
(* Any call may raise.                                                     *)
(***************************************************************************)
SmilesAlphabet == <<"C","N","O">>
CharCode(c) == CHOOSE i \in 1..Len(SmilesAlphabet) : SmilesAlphabet[i] = c

RECURSIVE Checksum(_, _)
Checksum(s, i) == IF i > Len(s) THEN 0 ELSE i * CharCode(s[i]) + Checksum(s, i + 1)

CatalogIndex(id) == CHOOSE i \in 1..Len(CatalogIds) : CatalogIds[i] = id

PredictedValue(smi, id) == 100 * Checksum(smi, 1) + CatalogIndex(id)

AllIds == {CatalogIds[i] : i \in 1..Len(CatalogIds)}

\* the keys predict returns for an input: every id for CCO, every id but
\* QED for CCN (the engine is a function of its input when it does not fail)
PredictedKeys(smi) == IF smi = CCN THEN AllIds \ {s_QED} ELSE AllIds

\* None: predict raised; Some(d): predict returned the dict d
PredictOutcomes(smi) ==
  {None, Some([id \in PredictedKeys(smi) |-> PredictedValue(smi, id)])}

(***************************************************************************)
(* admet.py: class Admet.  The state of a worker is its preds dict, a      *)
(* function from the keys the last predict returned to their values.       *)
(***************************************************************************)
\* Admet.__init__: self.preds = {}
Admet_init == << >>

s_get_ == <<"g","e","t","_">>

\* Admet.__getattr__(name) followed by the call of the returned lambda:
\* the value, or AttributeError(name)
Admet_getattr(self_preds, name) ==
  LET prop == SubSeq(name, 5, Len(name))
      full_prop_id == DictGet(PROPERTY_NAME_MAP, prop)
  IN  IF /\ StartsWith(name, s_get_)
         /\ Truthy(full_prop_id)
         /\ full_prop_id[1] \in DOMAIN self_preds
        THEN [raised |-> FALSE, value |-> self_preds[full_prop_id[1]]]
        ELSE [raised |-> TRUE, error |-> name]

(***************************************************************************)
(* endpoint.py: the pydantic models.  Construction keeps the declared      *)
(* fields: a keyword that names no field is ignored (pydantic's default    *)
(* for extra keywords) and an optional field not given takes its default.  *)
(***************************************************************************)
Construct(required, optional, kwargs) ==
  [f \in required \cup DOMAIN optional |->
     IF f \in DOMAIN kwargs THEN kwargs[f] ELSE optional[f]]

HealthResponse(kwargs) ==
  Construct({"status", "message"}, << >>, kwargs)

PropertyResult(kwargs) ==
  Construct({"property", "status"}, [results |-> None, error |-> None], kwargs)

Response(kwargs) ==
  Construct({"smiles", "status", "results"}, [error |-> None], kwargs)

BulkResponse(kwargs) ==
  Construct({"filename", "total_smiles", "results"},
            [requested_properties |-> None], kwargs)

\* lines 94-105 and 130-141: the try/except around one property read
ReadProperty(self_preds, prop) ==
  LET got == Admet_getattr(self_preds, s_get_ \o prop)
  IN  IF ~got.raised
        THEN PropertyResult([property |-> prop, status |-> "success",
                             results |-> Some(got.value)])
        ELSE PropertyResult([property |-> prop, status |-> "error",
                             error |-> Some(got.error)])

\* ReadProperties without the try/except of lines 94-105: the loop ends at
\* the first property whose read raises
RECURSIVE ReadUntilFault(_, _, _)
ReadUntilFault(self_preds, properties_to_use, i) ==
  IF i > Len(properties_to_use) THEN {}
  ELSE IF Admet_getattr(self_preds, s_get_ \o properties_to_use[i]).raised THEN {}
  ELSE {properties_to_use[i]} \cup ReadUntilFault(self_preds, properties_to_use, i + 1)

ReadPropertiesNoIsolation(self_preds, properties_to_use) ==
  [prop \in ReadUntilFault(self_preds, properties_to_use, 1) |->
     ReadProperty(self_preds, prop)]

\* lines 92-105 and 128-141: the results dict after the loop over
\* properties_to_use; each iteration assigns results[prop]
ReadProperties(self_preds, properties_to_use) ==
  [prop \in {properties_to_use[i] : i \in 1..Len(properties_to_use)} |->
     ReadProperty(self_preds, prop)]

\* lines 150-156: zip(smiles_list, outputs) stops at the shorter list
ZipResponses(smiles_list, outputs) ==
  LET n == IF Len(smiles_list) < Len(outputs) THEN Len(smiles_list) ELSE Len(outputs)
  IN  [i \in 1..n |-> Response([smiles |-> smiles_list[i], status |-> "success",
                                results |-> outputs[i]])]

\* line 113: the stripped non-blank lines of the upload
SmilesList(contents) ==
  LET lines == StrSplitLines(contents)
      stripped == [i \in 1..Len(lines) |-> StrStrip(lines[i])]
  IN  SelectSeq(stripped, LAMBDA line : line # << >>)

(***************************************************************************)
(* The service.  The handlers are coroutines of one asyncio event loop:    *)
(* the loop runs one task at a time, and a task gives up the loop only at  *)
(* an await that suspends it.  model_pool is an unbounded asyncio.Queue:   *)
(* get() suspends the caller only while the queue is empty, put() never    *)
(* suspends and wakes the oldest suspended getter.                         *)
(***************************************************************************)
VARIABLES
  QUEUE_COUNT,  \* endpoint.py line 39, read from the environment
  started,      \* the startup handler has run
  model_pool,   \* the workers in the queue, oldest first
  getters,      \* the requests suspended in model_pool.get(), oldest first
  preds,        \* preds[w]: the preds dict of worker w
  ready,        \* the tasks the event loop is about to run, in order
  running,      \* the task the event loop is running, or None
  req,          \* req[r]: the position and the locals of request r
  hist          \* hist[r]: what request r has done to the pool so far

vars == <<QUEUE_COUNT, started, model_pool, getters, preds, ready, running, req, hist>>

IdleRequest ==
  [ pc |-> "idle", route |-> "none",
    smiles |-> << >>, property |-> None,
    smiles_list |-> << >>, properties_to_use |-> << >>, error |-> None,
    model |-> None, next |-> 1, outputs |-> << >>,
    ret |-> None, raised |-> FALSE ]

NoHistory ==
  [gets |-> 0, puts |-> 0, idle_at_get |-> 0, suspended |-> FALSE, runs |-> << >>]

Init ==
  /\ QUEUE_COUNT \in QueueCountValues
  /\ started = FALSE
  /\ model_pool = << >>
  /\ getters = << >>
  /\ preds = [w \in Workers |-> Admet_init]
  /\ ready = << >>
  /\ running = None
  /\ req = [r \in Requests |-> IdleRequest]
  /\ hist = [r \in Requests |-> NoHistory]

\* start with the loop of line 68 one iteration short
start_one_short ==
  /\ ~started
  /\ started' = TRUE
  /\ model_pool' = [i \in 1..(QUEUE_COUNT - 1) |-> i]
  /\ UNCHANGED <<QUEUE_COUNT, getters, preds, ready, running, req, hist>>

\* lines 64-69: one put_nowait(Admet()) per element of range(QUEUE_COUNT)
start ==
  /\ ~started
  /\ started' = TRUE
  /\ model_pool' = [i \in 1..QUEUE_COUNT |-> i]
  /\ UNCHANGED <<QUEUE_COUNT, getters, preds, ready, running, req, hist>>

\* a request reaches the server: its task joins the loop's ready queue.
\* It takes the lowest free request slot; its route and its body are read
\* when its handler is entered.
Arrive(r) ==
  /\ started
  /\ running = None
  /\ req[r].pc = "idle"
  /\ \A q \in Requests : req[q].pc = "idle" => r <= q
  /\ req' = [req EXCEPT ![r].pc = "entry"]
  /\ ready' = Append(ready, r)
  /\ UNCHANGED <<QUEUE_COUNT, started, model_pool, getters, preds, running, hist>>

\* the loop takes the next ready task
Dispatch ==
  /\ running = None
  /\ ready # << >>
  /\ running' = Some(Head(ready))
  /\ ready' = Tail(ready)
  /\ UNCHANGED <<QUEUE_COUNT, started, model_pool, getters, preds, req, hist>>

At(r, pc) == running = Some(r) /\ req[r].pc = pc

\* health_check with a probe of the pool: it reports "unhealthy" while no
\* worker is idle in the queue
health_check_probe(r) ==
  /\ At(r, "entry")
  /\ req' = [req EXCEPT
       ![r].pc = "returned", ![r].route = "health",
       ![r].ret = Some(HealthResponse(
                    [status |-> IF model_pool = << >> THEN "unhealthy" ELSE "healthy",
                     message |-> "ADMET-AI microservice is running"]))]
  /\ UNCHANGED <<QUEUE_COUNT, started, model_pool, getters, preds, ready, running, hist>>

\* lines 71-82: health_check has no await and does not touch model_pool;
\* it returns its response in one run of the task
health_check(r) ==
  /\ At(r, "entry")
  /\ req' = [req EXCEPT
       ![r].pc = "returned", ![r].route = "health",
       ![r].ret = Some(HealthResponse(
                    [status |-> "healthy",
                     message |-> "ADMET-AI microservice is running"]))]
  /\ UNCHANGED <<QUEUE_COUNT, started, model_pool, getters, preds, ready, running, hist>>

\* line 85: smi_request is called with the parsed body
smi_request_enter(r, smiles, property) ==
  /\ At(r, "entry")
  /\ req' = [req EXCEPT ![r].pc = "get", ![r].route = "smi",
                        ![r].smiles = smiles, ![r].property = property]
  /\ UNCHANGED <<QUEUE_COUNT, started, model_pool, getters, preds, ready, running, hist>>

\* line 112: upload_smi awaits file.read(); the read may suspend the task
upload_smi_enter(r) ==
  /\ At(r, "entry")
  /\ req' = [req EXCEPT ![r].pc = "file", ![r].route = "upload_smi"]
  /\ \/ UNCHANGED <<ready, running>>
     \/ running' = None /\ ready' = Append(ready, r)
  /\ UNCHANGED <<QUEUE_COUNT, started, model_pool, getters, preds, hist>>

\* lines 112-115: the contents are decoded and split into smiles_list
upload_smi_file(r, contents, property) ==
  /\ At(r, "file")
  /\ req' = [req EXCEPT ![r].pc = "get", ![r].property = property,
                        ![r].smiles_list = SmilesList(contents)]
  /\ UNCHANGED <<QUEUE_COUNT, started, model_pool, getters, preds, ready, running, hist>>

\* QueueGet with the worker handed out but left in the queue
QueueGetKeepsWorker(r) ==
  IF model_pool = << >>
    THEN /\ getters' = Append(getters, r)
         /\ running' = None
         /\ hist' = [hist EXCEPT ![r].suspended = TRUE]
         /\ UNCHANGED <<model_pool, req>>
    ELSE /\ model_pool' = model_pool
         /\ req' = [req EXCEPT ![r].pc = "resolve", ![r].model = Some(Head(model_pool))]
         /\ hist' = [hist EXCEPT ![r].gets = @ + 1, ![r].idle_at_get = Len(model_pool)]
         /\ UNCHANGED <<getters, running>>

\* asyncio.Queue.get, lines 86 and 116: with the queue empty the caller is
\* suspended among the getters; otherwise it takes the oldest worker
QueueGet(r) ==
  IF model_pool = << >>
    THEN /\ getters' = Append(getters, r)
         /\ running' = None
         /\ hist' = [hist EXCEPT ![r].suspended = TRUE]
         /\ UNCHANGED <<model_pool, req>>
    ELSE /\ model_pool' = Tail(model_pool)
         /\ req' = [req EXCEPT ![r].pc = "resolve", ![r].model = Some(Head(model_pool))]
         /\ hist' = [hist EXCEPT ![r].gets = @ + 1, ![r].idle_at_get = Len(model_pool)]
         /\ UNCHANGED <<getters, running>>

Get(r) ==
  /\ At(r, "get")
  /\ QueueGet(r)
  /\ UNCHANGED <<QUEUE_COUNT, started, preds, ready>>

\* the worker request r holds
Worker(r) == req[r].model[1]

\* lines 88-90: alias resolution of /smi; the error return of line 90
\* passes the message under the keyword errors
smi_request_resolve(r) ==
  LET resolved == get_valid_properties(req[r].property)
      properties_to_use == resolved[1]
      error == resolved[2]
  IN  IF error # None
        THEN req' = [req EXCEPT
               ![r].pc = "put",
               ![r].properties_to_use = properties_to_use,
               ![r].error = error,
               ![r].ret = Some(Response([smiles |-> req[r].smiles, status |-> "error",
                                         results |-> << >>, errors |-> error[1]]))]
        ELSE req' = [req EXCEPT ![r].pc = "run",
                                ![r].properties_to_use = properties_to_use,
                                ![r].error = error]

FileName == "upload.smi"

\* lines 118-126: alias resolution of /upload_smi, and the entry of the
\* loop over smiles_list
upload_smi_resolve(r) ==
  LET resolved == get_valid_properties(req[r].property)
      properties_to_use == resolved[1]
      error == resolved[2]
  IN  IF error # None
        THEN req' = [req EXCEPT
               ![r].pc = "put",
               ![r].properties_to_use = properties_to_use,
               ![r].error = error,
               ![r].ret = Some(BulkResponse([filename |-> FileName,
                                             requested_properties |-> req[r].property,
                                             total_smiles |-> Len(req[r].smiles_list),
                                             results |-> << >>]))]
        ELSE req' = [req EXCEPT
               ![r].pc = IF req[r].smiles_list = << >> THEN "put" ELSE "run",
               ![r].properties_to_use = properties_to_use,
               ![r].error = error]

Resolve(r) ==
  /\ At(r, "resolve")
  /\ IF req[r].route = "smi" THEN smi_request_resolve(r) ELSE upload_smi_resolve(r)
  /\ UNCHANGED <<QUEUE_COUNT, started, model_pool, getters, preds, ready, running, hist>>

\* RunInput with the loop of line 126 over reversed(smiles_list)
RunInputReversed(r) ==
  IF req[r].route = "smi" THEN req[r].smiles
  ELSE req[r].smiles_list[Len(req[r].smiles_list) + 1 - req[r].next]

\* the input of the next run: req.smiles, or the next element of smiles_list
RunInput(r) ==
  IF req[r].route = "smi" THEN req[r].smiles ELSE req[r].smiles_list[req[r].next]

\* Admet.run with self.preds.update(...) in place of the assignment: the
\* keys the new prediction lacks keep their old values
Admet_run_update(self_preds, outcome) ==
  IF outcome = None THEN self_preds
  ELSE [k \in DOMAIN self_preds \cup DOMAIN outcome[1] |->
          IF k \in DOMAIN outcome[1] THEN outcome[1][k] ELSE self_preds[k]]

\* Admet.run: self.preds = self.model.predict(smi); when predict raises,
\* preds is not assigned
Admet_run(self_preds, outcome) ==
  IF outcome = None THEN self_preds ELSE outcome[1]

\* Run with the exception of model.run caught inside the loop of line 126:
\* the fault is noted and the loop goes on with the next input
RunPastFault(r) ==
  /\ At(r, "run")
  /\ \E outcome \in PredictOutcomes(RunInput(r)) :
       /\ preds' = [preds EXCEPT ![Worker(r)] = Admet_run(@, outcome)]
       /\ req' = IF outcome = None
                   THEN [req EXCEPT
                           ![r].pc = IF req[r].route = "smi" \/
                                        req[r].next = Len(req[r].smiles_list)
                                       THEN "put" ELSE "run",
                           ![r].next = IF req[r].route = "smi" THEN @ ELSE @ + 1,
                           ![r].raised = TRUE]
                   ELSE [req EXCEPT ![r].pc = "read"]
  /\ hist' = [hist EXCEPT ![r].runs = Append(@, <<RunInput(r), Worker(r)>>)]
  /\ UNCHANGED <<QUEUE_COUNT, started, model_pool, getters, ready, running>>

\* lines 91 and 127: model.run; an exception leaves the try block for the
\* finally clause.  hist records the input and the worker of the call.
Run(r) ==
  /\ At(r, "run")
  /\ \E outcome \in PredictOutcomes(RunInput(r)) :
       /\ preds' = [preds EXCEPT ![Worker(r)] = Admet_run(@, outcome)]
       /\ req' = IF outcome = None
                   THEN [req EXCEPT ![r].pc = "put", ![r].raised = TRUE]
                   ELSE [req EXCEPT ![r].pc = "read"]
  /\ hist' = [hist EXCEPT ![r].runs = Append(@, <<RunInput(r), Worker(r)>>)]
  /\ UNCHANGED <<QUEUE_COUNT, started, model_pool, getters, ready, running>>

\* lines 92-106: the results of /smi and its success response
smi_request_read(r) ==
  LET results == ReadProperties(preds[Worker(r)], req[r].properties_to_use)
  IN  req' = [req EXCEPT
        ![r].pc = "put",
        ![r].ret = Some(Response([smiles |-> req[r].smiles, status |-> "success",
                                  results |-> results]))]

\* upload_smi_read with the results dict created once before the loop over
\* smiles_list: every element of outputs is that one dict
upload_smi_read_shared(r) ==
  LET results == ReadProperties(preds[Worker(r)], req[r].properties_to_use)
  IN  req' = [req EXCEPT
        ![r].pc = IF req[r].next = Len(req[r].smiles_list) THEN "put" ELSE "run",
        ![r].next = @ + 1,
        ![r].outputs = [i \in 1..(Len(@) + 1) |-> results]]

\* lines 128-142: the results of one input of /upload_smi, appended to
\* outputs, and the step of the loop over smiles_list
upload_smi_read(r) ==
  LET results == ReadProperties(preds[Worker(r)], req[r].properties_to_use)
  IN  req' = [req EXCEPT
        ![r].pc = IF req[r].next = Len(req[r].smiles_list) THEN "put" ELSE "run",
        ![r].next = @ + 1,
        ![r].outputs = Append(@, results)]

Read(r) ==
  /\ At(r, "read")
  /\ IF req[r].route = "smi" THEN smi_request_read(r) ELSE upload_smi_read(r)
  /\ UNCHANGED <<QUEUE_COUNT, started, model_pool, getters, preds, ready, running, hist>>

\* QueuePut reached only when run did not raise (a put after the try block
\* in place of the finally clause)
QueuePutUnlessRaised(r) ==
  /\ model_pool' = IF req[r].raised THEN model_pool ELSE Append(model_pool, Worker(r))
  /\ IF getters # << >> /\ ~req[r].raised
       THEN getters' = Tail(getters) /\ ready' = Append(ready, Head(getters))
       ELSE UNCHANGED <<getters, ready>>
  /\ hist' = [hist EXCEPT ![r].puts = IF req[r].raised THEN @ ELSE @ + 1]

\* QueuePut run twice (a put in an except clause and again in the finally)
QueuePutTwice(r) ==
  /\ model_pool' = Append(Append(model_pool, Worker(r)), Worker(r))
  /\ IF getters # << >>
       THEN getters' = Tail(getters) /\ ready' = Append(ready, Head(getters))
       ELSE UNCHANGED <<getters, ready>>
  /\ hist' = [hist EXCEPT ![r].puts = @ + 2]

\* asyncio.Queue.put on the unbounded queue, lines 108 and 144: the worker
\* joins the queue and the oldest suspended getter is made ready
QueuePut(r) ==
  /\ model_pool' = Append(model_pool, Worker(r))
  /\ IF getters # << >>
       THEN getters' = Tail(getters) /\ ready' = Append(ready, Head(getters))
       ELSE UNCHANGED <<getters, ready>>
  /\ hist' = [hist EXCEPT ![r].puts = @ + 1]

\* lines 146-157: the response of /upload_smi after the finally clause
upload_smi_return(r) ==
  Some(BulkResponse([filename |-> FileName,
                     requested_properties |-> req[r].property,
                     total_smiles |-> Len(req[r].smiles_list),
                     results |-> ZipResponses(req[r].smiles_list, req[r].outputs)]))

\* lines 107-108 and 143-157: the finally clause, then the handler returns
\* its response or lets the exception of run pass to the framework
Put(r) ==
  /\ At(r, "put")
  /\ QueuePut(r)
  /\ req' = [req EXCEPT
       ![r].pc = "done",
       ![r].model = None,
       ![r].ret = IF req[r].route = "upload_smi" /\ ~req[r].raised /\ req[r].ret = None
                    THEN upload_smi_return(r) ELSE @]
  /\ UNCHANGED <<QUEUE_COUNT, started, preds, running>>

\* the framework sends the response (or the error of an exception) and the
\* task ends; the request slot is free for a later request
Respond(r) ==
  /\ At(r, "done") \/ At(r, "returned")
  /\ req' = [req EXCEPT ![r] = IdleRequest]
  /\ hist' = [hist EXCEPT ![r] = NoHistory]
  /\ running' = None
  /\ UNCHANGED <<QUEUE_COUNT, started, model_pool, getters, preds, ready>>

Next ==
  \/ start
  \/ \E r \in Requests : Arrive(r)
  \/ Dispatch
  \/ \E r \in Requests : health_check(r)
  \/ \E r \in Requests, smiles \in SmilesInputs, property \in PropertyInputs :
       smi_request_enter(r, smiles, property)
  \/ \E r \in Requests : upload_smi_enter(r)
  \/ \E r \in Requests, contents \in UploadInputs, property \in PropertyInputs :
       upload_smi_file(r, contents, property)
  \/ \E r \in Requests : Get(r)
  \/ \E r \in Requests : Resolve(r)
  \/ \E r \in Requests : Run(r)
  \/ \E r \in Requests : Read(r)
  \/ \E r \in Requests : Put(r)
  \/ \E r \in Requests : Respond(r)

Spec == Init /\ [][Next]_vars

\* the steps the event loop takes by itself: it runs the task it has
\* started to the next suspension and takes the ready tasks in order
LoopStep ==
  \/ start
  \/ Dispatch
  \/ \E r \in Requests : health_check(r)
  \/ \E r \in Requests, smiles \in SmilesInputs, property \in PropertyInputs :
       smi_request_enter(r, smiles, property)
  \/ \E r \in Requests : upload_smi_enter(r)
  \/ \E r \in Requests, contents \in UploadInputs, property \in PropertyInputs :
       upload_smi_file(r, contents, property)
  \/ \E r \in Requests : Get(r) \/ Resolve(r) \/ Run(r) \/ Read(r) \/ Put(r) \/ Respond(r)

FairSpec == Spec /\ WF_vars(LoopStep)

(***************************************************************************)
(* Properties                                                              *)
(***************************************************************************)
\* the request holds a worker: it has taken one from the queue and has not
\* put it back
Holding(r) == req[r].model # None

Holders(w) == {r \in Requests : req[r].model = Some(w)}

\* the number of workers start puts in the queue
Capacity == IF QUEUE_COUNT > 0 THEN QUEUE_COUNT ELSE 0

InPool(w) == \E i \in 1..Len(model_pool) : model_pool[i] = w

\* the request has arrived and has no worker yet
Pending(r) == req[r].pc \in {"entry", "file", "get"}

\* C1: a worker is held by at most one request at a time, and a worker that
\* a request holds is not in the queue for another request to take
C1_ExclusiveCustody ==
  \A w \in Workers :
    /\ Cardinality(Holders(w)) <= 1
    /\ Holders(w) # {} => ~InPool(w)

\* a request holds a worker while another request is in flight
C1_Witness ==
  \E r, q \in Requests : r # q /\ Holding(r) /\ Pending(q)

\* C2: once the pool is started with N workers, the workers held and the
\* workers idle in the queue are N together, no more than N are held, and
\* no worker is in the queue twice
C2_Conservation ==
  started =>
    /\ Cardinality({r \in Requests : Holding(r)}) <= Capacity
    /\ Cardinality({r \in Requests : Holding(r)}) + Len(model_pool) = Capacity
    /\ \A i, j \in 1..Len(model_pool) : model_pool[i] = model_pool[j] => i = j

\* a request holds the second worker of a pool of two while the first
\* worker, used and put back by an earlier request, is idle in the queue
C2_Witness ==
  /\ QUEUE_COUNT = 2
  /\ \E r \in Requests : Holding(r) /\ Worker(r) = 2
  /\ model_pool = <<1>>

\* C3: a request that has taken a worker and has reached the end of its
\* handler has put the worker back exactly once, by a response or by the
\* exception of run alike, and the queue then holds as many workers as it
\* did just before the request took one; a request whose run raised has no
\* response
C3_GuaranteedRelease ==
  \A r \in Requests :
    req[r].pc = "done" =>
      /\ hist[r].gets = 1
      /\ hist[r].puts = 1
      /\ ~Holding(r)
      /\ Len(model_pool) = hist[r].idle_at_get
      /\ req[r].raised => req[r].ret = None

\* an /upload_smi request has ended by the exception of the run on its
\* second input
C3_Witness ==
  \E r \in Requests :
    /\ req[r].pc = "done"
    /\ req[r].raised
    /\ req[r].route = "upload_smi"
    /\ Len(req[r].outputs) = 1

\* a /smi request has ended by the exception of its run
C3_WitnessSmi ==
  \E r \in Requests :
    req[r].pc = "done" /\ req[r].raised /\ req[r].route = "smi"

\* the alias resolution of the request's property field fails
ResolutionFails(r) == get_valid_properties(req[r].property)[2] # None

\* the handler of the request has been entered with its body
Entered(r) == req[r].pc \in {"get", "resolve", "run", "read", "put", "done"}

\* C4: a request resolves its aliases before it takes a worker, and a
\* request whose resolution fails never takes a worker and never waits
\* for one
C4_ResolveBeforeAcquire ==
  \A r \in Requests :
    /\ req[r].pc = "resolve" => ~Holding(r)
    /\ (Entered(r) /\ ResolutionFails(r)) =>
         hist[r].gets = 0 /\ ~hist[r].suspended

\* the request has called model_pool.get() and has no worker yet
WaitingToAcquire(r) == req[r].pc = "get"

\* C5: with at least one worker in the pool, a request that waits to acquire
\* a worker is eventually granted one
C5_EventuallyGranted ==
  \A r \in Requests :
    (QUEUE_COUNT >= 1 /\ WaitingToAcquire(r)) ~> Holding(r)

\* a request waits to acquire while another request is in flight and the
\* worker it is about to be granted has served an earlier request
C5_Witness ==
  \E r, q \in Requests :
    /\ r # q
    /\ QUEUE_COUNT >= 1
    /\ WaitingToAcquire(r)
    /\ Pending(q)
    /\ model_pool # << >>
    /\ preds[Head(model_pool)] # Admet_init

\* a step by which a request that holds no worker moves on
NonHolderStep ==
  \/ Dispatch
  \/ \E r \in Requests : health_check(r)
  \/ \E r \in Requests, smiles \in SmilesInputs, property \in PropertyInputs :
       smi_request_enter(r, smiles, property)
  \/ \E r \in Requests : upload_smi_enter(r)
  \/ \E r \in Requests, contents \in UploadInputs, property \in PropertyInputs :
       upload_smi_file(r, contents, property)
  \/ \E r \in Requests : Get(r)

\* C6: of the requests that try to acquire at once, as many as there are
\* idle workers are granted one without waiting for a release: while a
\* worker is idle in the queue, a request in flight that has none can move
\* on to take it, whatever the requests that hold workers are doing
C6_GrantedWhileWorkersIdle ==
  (/\ model_pool # << >>
   /\ \E r \in Requests : Holding(r)
   /\ \E q \in Requests : Pending(q))
  => ENABLED NonHolderStep

\* C7: the response of a /smi request whose property list holds an
\* unresolvable alias has status "error", no results, and an error message
\* that names the invalid alias and lists the recognized aliases
C7_SmiResolutionErrorResponse ==
  \A r \in Requests :
    (req[r].pc = "done" /\ req[r].route = "smi" /\ ResolutionFails(r)) =>
      /\ req[r].ret # None
      /\ req[r].ret[1].status = "error"
      /\ req[r].ret[1].results = << >>
      /\ req[r].ret[1].error # None
      /\ \E i \in 1..Len(req[r].property[1]) :
           req[r].ret[1].error[1].invalid = req[r].property[1][i]
      /\ req[r].ret[1].error[1].available = DictKeys(PROPERTY_NAME_MAP)

\* the properties a request asks for, once resolved
Requested(r) == {req[r].properties_to_use[i] : i \in 1..Len(req[r].properties_to_use)}

\* reading property p after the run on input smi raises
ReadFaults(smi, p) == p \notin PredictedKeys(smi)

\* the results of one input: an entry for every requested property, status
\* error for the properties whose read raised and for them only, status
\* success and the predicted value for every other one
IsolatedResults(r, smi, results) ==
  /\ DOMAIN results = Requested(r)
  /\ \A p \in Requested(r) :
       /\ results[p].property = p
       /\ ReadFaults(smi, p) =>
            /\ results[p].status = "error"
            /\ results[p].results = None
            /\ results[p].error # None
       /\ ~ReadFaults(smi, p) =>
            /\ results[p].status = "success"
            /\ results[p].results = Some(PredictedValue(smi, p))
            /\ results[p].error = None

\* the request has run every one of its inputs and read their properties
RunsSucceeded(r) ==
  /\ req[r].pc = "done"
  /\ ~req[r].raised
  /\ ~ResolutionFails(r)

\* C8: when the runs of a request succeeded, a property whose read raises
\* gets an error result, every other requested property is still read and
\* reported in the same response, and the response reports success
C8_PerPropertyIsolation ==
  \A r \in Requests :
    RunsSucceeded(r) =>
      /\ req[r].ret # None
      /\ req[r].route = "smi" =>
           /\ req[r].ret[1].status = "success"
           /\ IsolatedResults(r, req[r].smiles, req[r].ret[1].results)
      /\ req[r].route = "upload_smi" =>
           /\ Len(req[r].ret[1].results) = Len(req[r].smiles_list)
           /\ \A i \in 1..Len(req[r].ret[1].results) :
                /\ req[r].ret[1].results[i].status = "success"
                /\ IsolatedResults(r, req[r].smiles_list[i],
                                   req[r].ret[1].results[i].results)

\* a /smi response reports hERG with status success and QED, whose read
\* raised, with status error
C8_Witness ==
  \E r \in Requests :
    /\ RunsSucceeded(r)
    /\ req[r].route = "smi"
    /\ Requested(r) = {s_hERG, s_QED}
    /\ req[r].ret[1].results[s_hERG].status = "success"
    /\ req[r].ret[1].results[s_QED].status = "error"

\* C9: a requested id that the run did not produce is reported with status
\* success and no value
C9_AbsentIsSuccess ==
  \A r \in Requests :
    (RunsSucceeded(r) /\ req[r].route = "smi") =>
      \A p \in Requested(r) :
        p \notin PredictedKeys(req[r].smiles) =>
          /\ p \in DOMAIN req[r].ret[1].results
          /\ req[r].ret[1].results[p].status = "success"
          /\ req[r].ret[1].results[p].results = None

\* the handler has resolved the property field of the request
Resolved(r) == req[r].pc \in {"run", "read", "put", "done"}

\* the list is the ids of the property table, in table order
IsFullCatalog(props) ==
  /\ Len(props) = Len(ALL_PROPS)
  /\ \A i \in 1..Len(ALL_PROPS) : props[i] = ALL_PROPS[i][1]

\* C10 as claimed: an absent and an empty property list both resolve to the
\* full list of ids in table order, with no error
C10_AbsentOrEmptyGivesAll ==
  \A r \in Requests :
    (Resolved(r) /\ req[r].property \in {None, Some(<< >>)}) =>
      /\ IsFullCatalog(req[r].properties_to_use)
      /\ req[r].error = None

\* C10 as amended: an absent property list resolves to the full list of ids
\* in table order with no error; an empty list resolves to an empty list of
\* properties with no error
C10_AbsentGivesAllEmptyGivesNone ==
  \A r \in Requests :
    /\ (Resolved(r) /\ req[r].property = None) =>
         /\ IsFullCatalog(req[r].properties_to_use)
         /\ req[r].error = None
    /\ (Resolved(r) /\ req[r].property = Some(<< >>)) =>
         /\ req[r].properties_to_use = << >>
         /\ req[r].error = None

\* a /smi request with an empty property list has ended with a success
\* response that holds no result
C10_Witness ==
  \E r \in Requests :
    /\ req[r].pc = "done"
    /\ req[r].route = "smi"
    /\ req[r].property = Some(<< >>)
    /\ req[r].ret # None
    /\ req[r].ret[1].status = "success"
    /\ req[r].ret[1].results = << >>

\* a request with no property field has resolved to the whole table
C10_WitnessAbsent ==
  \E r \in Requests :
    Resolved(r) /\ req[r].property = None /\ Len(req[r].properties_to_use) = Len(ALL_PROPS)

\* the aliases of the list that are not keys of the alias table
UnknownAt(property) ==
  {i \in 1..Len(property) : ~DictHas(PROPERTY_NAME_MAP, property[i])}

FirstUnknown(property) ==
  property[CHOOSE i \in UnknownAt(property) : \A j \in UnknownAt(property) : i <= j]

\* C11: resolution is all or nothing: a property list that holds an alias
\* the table does not know, at any position and among any number of known
\* aliases, resolves to no property at all and to an error that names the
\* first unknown alias; no partial list of properties is returned
C11_AllOrNothing ==
  \A r \in Requests :
    (Resolved(r) /\ req[r].property # None /\ UnknownAt(req[r].property[1]) # {}) =>
      /\ req[r].properties_to_use = << >>
      /\ req[r].error # None
      /\ req[r].error[1].invalid = FirstUnknown(req[r].property[1])

\* a request whose list holds a known alias before the unknown one has
\* resolved
C11_Witness ==
  \E r \in Requests :
    Resolved(r) /\ req[r].property = Some(<<s_QED, s_bogus>>) /\ req[r].error # None

\* a request whose list holds the unknown alias before a known one has
\* resolved
C11_WitnessFirst ==
  \E r \in Requests :
    Resolved(r) /\ req[r].property = Some(<<s_bogus, s_logP>>) /\ req[r].error # None

\* the three alias keys of a row of the property table
AliasKeys(row) ==
  {row[1], StrLower(row[1]), StrReplace(StrLower(row[2]), " ", "_")}

Rows == 1..Len(ALL_PROPS)

\* the alias keys of every row, by row number
RowKeys == [i \in Rows |-> AliasKeys(ALL_PROPS[i])]

\* every alias key of every row maps to the id of its row, and no two rows
\* share an alias key
AliasTableComplete ==
  /\ \A i \in Rows : \A k \in RowKeys[i] :
       DictGet(PROPERTY_NAME_MAP, k) = Some(ALL_PROPS[i][1])
  /\ \A i, j \in Rows : i # j => RowKeys[i] \cap RowKeys[j] = {}

\* C12: for every row (id, name) of the property table the alias table
\* resolves the id, the lowercased id and the lowercased name with
\* underscores for spaces to that id: no key made for one id is overwritten
\* by a key of another id, and a request that names any such alias is
\* served the id of its row
C12_AliasTableComplete ==
  /\ AliasTableComplete
  /\ \A r \in Requests :
       (Resolved(r) /\ req[r].property # None /\ req[r].error = None) =>
         /\ Len(req[r].properties_to_use) = Len(req[r].property[1])
         /\ \A n \in 1..Len(req[r].property[1]) : \A i \in Rows :
              req[r].property[1][n] \in RowKeys[i] =>
                req[r].properties_to_use[n] = ALL_PROPS[i][1]

\* a request that names hERG by its friendly name and QED by its id has
\* resolved to the two ids
C12_Witness ==
  \E r \in Requests :
    /\ Resolved(r)
    /\ req[r].property = Some(<<s_herg_blocking, s_QED>>)
    /\ req[r].properties_to_use = <<s_hERG, s_QED>>

\* the keys of the alias table, each with its lowercased form
LoweredKey == [k \in DOMAIN PROPERTY_NAME_MAP.map |-> StrLower(k)]

\* the ids of the recognized aliases that differ from the alias at most in
\* letter case
CaseVariantIds(alias) ==
  {PROPERTY_NAME_MAP.map[k] :
     k \in {x \in DOMAIN PROPERTY_NAME_MAP.map : LoweredKey[x] = StrLower(alias)}}

\* C13: the alias a request supplies is lowercased before the lookup: an
\* alias that differs from a recognized alias only in letter case resolves
\* as that recognized alias does, to the same id and with no error
C13_CaseInsensitiveLookup ==
  \A r \in Requests :
    (/\ Resolved(r)
     /\ req[r].property # None
     /\ \A n \in 1..Len(req[r].property[1]) :
          CaseVariantIds(req[r].property[1][n]) # {}) =>
      /\ req[r].error = None
      /\ Len(req[r].properties_to_use) = Len(req[r].property[1])
      /\ \A n \in 1..Len(req[r].property[1]) :
           req[r].properties_to_use[n] \in CaseVariantIds(req[r].property[1][n])

\* C14: the response of a bulk request over the inputs s_1 .. s_k whose runs
\* all succeeded has k results in the order of the inputs; the i-th result
\* carries s_i and, for each requested property, what the run on s_i
\* itself produced: its value, or an error where that run produced none
C14_BulkOneToOne ==
  \A r \in Requests :
    (RunsSucceeded(r) /\ req[r].route = "upload_smi") =>
      /\ req[r].ret # None
      /\ req[r].ret[1].total_smiles = Len(req[r].smiles_list)
      /\ Len(req[r].ret[1].results) = Len(req[r].smiles_list)
      /\ \A i \in 1..Len(req[r].smiles_list) :
           LET s_i == req[r].smiles_list[i]
               result == req[r].ret[1].results[i]
           IN  /\ result.smiles = s_i
               /\ DOMAIN result.results = Requested(r)
               /\ \A p \in Requested(r) :
                    IF p \in PredictedKeys(s_i)
                      THEN result.results[p].results = Some(PredictedValue(s_i, p))
                      ELSE result.results[p].results = None

\* a bulk response over CCO and CCN: QED has a value in the first result
\* and none in the second, hERG has a different value in each
C14_Witness ==
  \E r \in Requests :
    /\ RunsSucceeded(r)
    /\ req[r].route = "upload_smi"
    /\ req[r].smiles_list = <<CCO, CCN>>
    /\ Requested(r) = {s_hERG, s_QED}
    /\ req[r].ret[1].results[1].results[s_QED].results # None
    /\ req[r].ret[1].results[2].results[s_QED].results = None
    /\ req[r].ret[1].results[1].results[s_hERG].results #
         req[r].ret[1].results[2].results[s_hERG].results

\* C15: a bulk request whose alias resolution fails is answered with a
\* structured error response: it has a status field that says "error" and
\* an error field that holds the resolution error
C15_BulkResolutionErrorResponse ==
  \A r \in Requests :
    (req[r].pc = "done" /\ req[r].route = "upload_smi" /\ ResolutionFails(r)) =>
      /\ req[r].ret # None
      /\ "status" \in DOMAIN req[r].ret[1]
      /\ req[r].ret[1].status = "error"
      /\ "error" \in DOMAIN req[r].ret[1]
      /\ req[r].ret[1].error = req[r].error

\* C16: the pool has at least one worker: whatever the value of the
\* QUEUE_COUNT setting, a service that has started and takes requests has
\* a worker, in the queue or held by a request
C16_ServingPoolNotEmpty ==
  (started /\ \E r \in Requests : req[r].pc # "idle") =>
    Len(model_pool) + Cardinality({r \in Requests : Holding(r)}) >= 1

\* the response of the health check
Healthy ==
  Some([status |-> "healthy", message |-> "ADMET-AI microservice is running"])

\* the request is suspended in model_pool.get()
Suspended(r) == \E i \in 1..Len(getters) : getters[i] = r

RunLog(r) == [i \in 1..Len(hist[r].runs) |-> hist[r].runs[i][1]]

\* the workers of the runs of the request so far
RunWorkers(r) == {hist[r].runs[i][2] : i \in 1..Len(hist[r].runs)}

\* C18: a bulk request takes a worker once and runs all its inputs on that
\* worker, one after the other in the order of the non-blank lines of the
\* upload; the properties of an input are read before the next input is
\* run
C18_BulkSequentialOnOneWorker ==
  \A r \in Requests :
    req[r].route = "upload_smi" =>
      /\ hist[r].gets <= 1
      /\ hist[r].runs # << >> => hist[r].gets = 1
      /\ Cardinality(RunWorkers(r)) <= 1
      /\ Holding(r) => RunWorkers(r) \subseteq {Worker(r)}
      /\ Len(RunLog(r)) <= Len(req[r].smiles_list)
      /\ RunLog(r) = SubSeq(req[r].smiles_list, 1, Len(RunLog(r)))
      /\ req[r].pc = "run" => Len(req[r].outputs) = Len(RunLog(r))
      /\ Len(req[r].outputs) \in {Len(RunLog(r)) - 1, Len(RunLog(r))}
      /\ Len(req[r].outputs) < Len(RunLog(r)) => (req[r].pc = "read" \/ req[r].raised)

\* a bulk request over the lines CCO, blank, CCN has read the properties of
\* CCO and has run CCN on the same worker
C18_Witness ==
  \E r \in Requests :
    /\ req[r].route = "upload_smi"
    /\ req[r].pc = "read"
    /\ req[r].smiles_list = <<CCO, CCN>>
    /\ RunLog(r) = <<CCO, CCN>>
    /\ Len(req[r].outputs) = 1
    /\ RunWorkers(r) = {Worker(r)}

\* every value reported with status success in the results of one input
\* is the value the run on that input produced for that property
OwnValues(smi, results) ==
  \A p \in DOMAIN results :
    results[p].status = "success" =>
      /\ p \in PredictedKeys(smi)
      /\ results[p].results = Some(PredictedValue(smi, p))

\* C19: no value leaks from one run into the results of another: every
\* success value a request reports or has collected for an input s was
\* produced by the run this request made on s, on the worker it held, and
\* a request whose run raised reports no value at all
C19_NoStaleValues ==
  \A r \in Requests :
    /\ req[r].raised => req[r].ret = None
    /\ (req[r].route = "smi" /\ req[r].ret # None /\ req[r].ret[1].status = "success") =>
         /\ RunLog(r) = <<req[r].smiles>>
         /\ OwnValues(req[r].smiles, req[r].ret[1].results)
    /\ req[r].route = "upload_smi" =>
         /\ \A i \in 1..Len(req[r].outputs) :
              /\ i <= Len(RunLog(r)) /\ RunLog(r)[i] = req[r].smiles_list[i]
              /\ OwnValues(req[r].smiles_list[i], req[r].outputs[i])
         /\ req[r].ret # None =>
              \A i \in 1..Len(req[r].ret[1].results) :
                /\ i <= Len(RunLog(r)) /\ RunLog(r)[i] = req[r].ret[1].results[i].smiles
                /\ OwnValues(req[r].ret[1].results[i].smiles,
                             req[r].ret[1].results[i].results)

\* a bulk request has run CCO and then CCN on the worker it holds: the
\* worker's preds have no QED, the results of CCO report QED with its value
\* and the results of CCN report QED as an error, not the value of CCO
C19_Witness ==
  \E r \in Requests :
    /\ req[r].route = "upload_smi"
    /\ req[r].pc = "put"
    /\ Holding(r)
    /\ RunLog(r) = <<CCO, CCN>>
    /\ Len(req[r].outputs) = 2
    /\ s_QED \notin DOMAIN preds[Worker(r)]
    /\ s_QED \in DOMAIN req[r].outputs[1]
    /\ req[r].outputs[1][s_QED].results = Some(PredictedValue(CCO, s_QED))
    /\ req[r].outputs[2][s_QED].status = "error"

\* a /smi request for CCN reports QED as an error after its run on worker 1
\* of a pool of two; worker 2 has been run, which in the order of the queue
\* happens only after an earlier request has held worker 1 and put it back
C19_WitnessSmi ==
  \E r \in Requests :
    /\ req[r].route = "smi"
    /\ req[r].pc = "done"
    /\ req[r].smiles = CCN
    /\ req[r].ret # None
    /\ req[r].ret[1].status = "success"
    /\ s_QED \in DOMAIN req[r].ret[1].results
    /\ req[r].ret[1].results[s_QED].status = "error"
    /\ QUEUE_COUNT = 2
    /\ hist[r].runs = << <<CCN, 1>> >>
    /\ preds[2] # Admet_init

\* C20: when the run of a bulk request raises on its i-th input, the whole
\* request fails: the inputs after the i-th are not run, the results read
\* for the inputs before it are returned in no response, and the worker is
\* put back exactly once
C20_BulkFaultAbortsBatch ==
  \A r \in Requests :
    (req[r].route = "upload_smi" /\ req[r].raised) =>
      /\ req[r].pc \in {"put", "done"}
      /\ req[r].ret = None
      /\ Len(RunLog(r)) = Len(req[r].outputs) + 1
      /\ RunLog(r) = SubSeq(req[r].smiles_list, 1, Len(req[r].outputs) + 1)
      /\ req[r].pc = "put" => (Holding(r) /\ hist[r].puts = 0)
      /\ req[r].pc = "done" =>
           /\ ~Holding(r)
           /\ hist[r].puts = 1
           /\ \A w \in RunWorkers(r) :
                Cardinality({i \in 1..Len(model_pool) : model_pool[i] = w}) = 1

\* a bulk request over CCO and CCN has ended by the exception of its run
\* on CCO: CCN was not run
C20_Witness ==
  \E r \in Requests :
    /\ req[r].route = "upload_smi"
    /\ req[r].pc = "done"
    /\ req[r].raised
    /\ req[r].smiles_list = <<CCO, CCN>>
    /\ RunLog(r) = <<CCO>>
    /\ req[r].outputs = << >>

\* a bulk request has ended by the exception of its run on CCN after it
\* had read the results of CCO, which no response returns
C20_WitnessSecond ==
  \E r \in Requests :
    /\ req[r].route = "upload_smi"
    /\ req[r].pc = "done"
    /\ req[r].raised
    /\ RunLog(r) = <<CCO, CCN>>
    /\ Len(req[r].outputs) = 1
    /\ req[r].ret = None

====
